---- MODULE Spec2Model ----
(***************************************************************************)
(* dm::ng::BitArrayImpl (include/dm/ng/datastructures/bitarray.h) over the *)
(* runtime-sized storage strategies BitArrayStorage / BitArrayStorageExt.  *)
(*                                                                         *)
(* A 64-bit word is modelled as the set of its one-bit positions, a subset *)
(* of 0..63: bit p of the word is 1 iff p is in the set.  Every word       *)
(* operation of the source (|, &, ~, ^, <<, >>, +1, count of trailing or   *)
(* leading zeros, population count) is an operator on such sets that       *)
(* computes what the machine operation computes on the 64-bit value.       *)
(***************************************************************************)
EXTENDS Integers, FiniteSets, Sequences, TLC

\* ------------------------------------------------------------------ bounds

\* Capacities (the _max handed to init) the model constructs arrays with:
\* two words with a partial last word, and two full words.
Capacities == {70, 128}

\* Bit indices the point and range operations are called with under Spec,
\* where every operation is callable and the number of calls is bounded.
TestBits == {0, 60, 64, 70}

\* Bit indices set/unset/toggle are called with under SpecFirst and SpecAny,
\* where the number of calls is not bounded.
FillBits == {0, 63, 64, 69}

\* Number of calls made on one array under Spec.
MaxCalls == 3

\* Largest low half of a capacity numSlotsFor/sizeFor are asked about under
\* SpecSize; the high half ranges over HighHalves.
MaxLowHalf == 130

HighHalves == {0, 1, 32768, 65535}

\* Largest domain size N of a sparse set.
MaxDomain == 3

\* Most init() calls made on one object during its lifetime.
MaxInits == 3

\* ------------------------------------------------------- 64-bit word algebra

\* Width of uint64_t: bucket = _bit>>6, position = _bit&63.
WordBits == 64

Positions == 0 .. (WordBits - 1)

\* UINT64_MAX
UINT64_MAX == Positions

\* UINT64_C(1) << p
OneShl(p) == {p}

\* v << n  (bits shifted past position 63 are lost)
Shl(v, n) == {p + n : p \in {q \in v : q + n < WordBits}}

\* v >> n  (logical shift of an unsigned value)
Shr(v, n) == {p - n : p \in {q \in v : q >= n}}

\* ~v
Not(v) == Positions \ v

\* a ^ b
Xor(a, b) == (a \ b) \cup (b \ a)

\* v + 1 modulo 2^64: the carry ripples through the trailing ones.
Add1(v) ==
    IF v = UINT64_MAX THEN {}
    ELSE LET z == CHOOSE p \in Positions :
                      p \notin v /\ \A q \in 0 .. (p - 1) : q \in v
         IN  (v \ (0 .. z)) \cup {z}

\* _bit >> 6
Bucket(bit) == bit \div WordBits

\* _bit & 63
Pos(bit) == bit % WordBits

\* slot << 6
SlotBase(slot) == slot * WordBits

\* dm/ng/bitops.h: count of trailing zeros (64 on a zero word).
cnttz_u64(v) ==
    IF v = {} THEN WordBits
    ELSE CHOOSE p \in v : \A q \in v : p <= q

\* dm/ng/bitops.h: count of leading zeros (64 on a zero word).
cntlz_u64(v) ==
    IF v = {} THEN WordBits
    ELSE (WordBits - 1) - (CHOOSE p \in v : \A q \in v : q <= p)

\* dm/ng/bitops.h: population count.
cntbits_u64(v) == Cardinality(v)

\* ------------------------------------------------------------------- state

VARIABLES
    m_max,      \* BitArrayStorage::m_max
    m_numSlots, \* BitArrayStorage::m_numSlots
    m_bits,     \* the words bits()[0 .. m_numSlots-1]
    m_last,     \* BitArrayImpl::m_last, the cursor of setAny
    oob,        \* TRUE once a call has read or written bits()[s], s >= numSlots
    call,       \* the last call made: its name and arguments
    ret,        \* the value the last call returned (0 for void)
    pre,        \* m_bits and m_last as they were when the last call began
    calls,      \* number of calls made so far (counted under Spec only)
    q_max,      \* the uint32_t _max last handed to numSlotsFor/sizeFor, as its
                \* two 16-bit halves <<high, low>>
    q_numSlots, \* what numSlotsFor(_max) returned
    q_size,     \* what sizeFor(_max) returned
    s_max,      \* Set::m_max (SetT: MaxValueT), the domain size N
    m_num,      \* Set::m_num
    m_values,   \* Set::m_values[0 .. N-1]
    m_indices,  \* Set::m_indices[0 .. N-1]
    s_fault,    \* "capacity" once insert's capacity check has tripped,
                \* "bounds" once a call has written outside the buffers
    s_call,     \* the last sparse-set call: name, argument, count before it
    s_ret,      \* what the last contains() returned
    s_ref,      \* the mathematical set the same calls build
    l_family,   \* whose lifetime is followed: "Set" or "BitArray"
    l_ptr,      \* Set::m_values / BitArrayStorage::m_bits: NULL or a buffer
    l_cleanup,  \* Set::m_cleanup: "true", "false", or "uninit"
    l_bufs,     \* every buffer an init() took: who owns it, times freed
    l_phase,    \* "alive", or "ended" once the object's lifetime is over
    l_last,     \* the last lifetime event
    l_prev      \* the lifetime event before it

bitVars == <<m_max, m_numSlots, m_bits, m_last, oob, call, ret, pre, calls>>

sizeVars == <<q_max, q_numSlots, q_size>>

setVars == <<s_max, m_num, m_values, m_indices, s_fault, s_call, s_ret, s_ref>>

lifeVars == <<l_family, l_ptr, l_cleanup, l_bufs, l_phase, l_last, l_prev>>

vars == <<bitVars, sizeVars, setVars, lifeVars>>

max == m_max

numSlots == m_numSlots

Slots == 0 .. (numSlots - 1)

\* The in-range arguments of the point and range operations.
Args == {i \in TestBits : i < max}

FillArgs == {i \in FillBits : i < max}

\* uint32_t arithmetic on a value held as two 16-bit halves <<high, low>>
\* (the value is high * 65536 + low; 2^32 itself is not a number TLC holds).
Half == 65536

\* _max - 1 in uint32_t: 0 - 1 wraps to 0xffffffff.
u32Dec(h) ==
    IF h[2] > 0 THEN <<h[1], h[2] - 1>>
    ELSE IF h[1] > 0 THEN <<h[1] - 1, Half - 1>>
    ELSE <<Half - 1, Half - 1>>

\* x >> 6 in uint32_t; the result is below 2^26.
u32Shr6(h) == h[1] * (Half \div WordBits) + (h[2] \div WordBits)

\* BitArrayStorage::numSlotsFor on the halves of _max: ((_max-1)>>6) + 1.
numSlotsForU32(h) == u32Shr6(u32Dec(h)) + 1

\* sizeof(uint64_t)
SizeofWord == 8

\* BitArrayStorage::sizeFor: numSlotsFor(_max)*sizeof(uint64_t); the product
\* is at most 2^29 and is not cut by the conversion to uint32_t.
sizeForU32(h) == numSlotsForU32(h) * SizeofWord

\* BitArrayStorage::numSlotsFor
numSlotsFor(_max) == numSlotsForU32(<<_max \div Half, _max % Half>>)

Call(name, a, b) == [name |-> name, a |-> a, b |-> b]

Snapshot == [bits |-> m_bits, last |-> m_last]

\* bool isSet(_bit) on a word buffer
isSetIn(bits, _bit) == (bits[Bucket(_bit)] \cap OneShl(Pos(_bit))) # {}

isSet(_bit) == isSetIn(m_bits, _bit)

\* No capacity has been asked about.
SizeIdle == q_max = <<0, 1>> /\ q_numSlots = 1 /\ q_size = SizeofWord

\* BitArrayStorage(): m_bits = NULL, m_numSlots = 0, m_max = 0; no call made.
BitIdle ==
    /\ m_max = 0
    /\ m_numSlots = 0
    /\ m_bits = <<>>
    /\ m_last = 0
    /\ oob = FALSE
    /\ call = Call("none", 0, 0)
    /\ ret = 0
    /\ pre = [bits |-> <<>>, last |-> 0]
    /\ calls = 0

\* The content of memory BX_ALLOC returned and nothing has written yet.
Uninit == -1

SCall(name, a) == [name |-> name, a |-> a, num |-> m_num]

\* Set(): no buffers, no call made.
SetIdle ==
    /\ s_max = 0
    /\ m_num = 0
    /\ m_values = <<>>
    /\ m_indices = <<>>
    /\ s_fault = "none"
    /\ s_call = [name |-> "none", a |-> 0, num |-> 0]
    /\ s_ret = FALSE
    /\ s_ref = {}

NULL == 0

\* Set() / BitArrayStorage(): the buffer pointer is NULL; Set::m_cleanup is
\* not written.
Constructed ==
    /\ l_ptr = NULL
    /\ l_cleanup = "uninit"
    /\ l_bufs = <<>>
    /\ l_phase = "alive"
    /\ l_last = "ctor"
    /\ l_prev = "none"

LifeIdle == l_family = "Set" /\ Constructed

\* BitArray::init(_max): Base::init, then Base::reset().
Init ==
    /\ SizeIdle
    /\ SetIdle
    /\ LifeIdle
    /\ m_max \in Capacities
    /\ m_numSlots = numSlotsFor(m_max)
    /\ m_bits = [s \in 0 .. (numSlotsFor(m_max) - 1) |-> {}]
    /\ m_last = 0
    /\ oob = FALSE
    /\ call = Call("init", 0, 0)
    /\ ret = 0
    /\ pre = [bits |-> m_bits, last |-> 0]
    /\ calls = 0

\* What every call leaves alone, and the record of the call.
Frame(name, a, b, r) ==
    /\ call' = Call(name, a, b)
    /\ ret' = r
    /\ pre' = Snapshot
    /\ UNCHANGED <<m_max, m_numSlots>>
    /\ UNCHANGED <<sizeVars, setVars, lifeVars>>

\* void set(_bit)
setBits(bits, _bit) ==
    [bits EXCEPT ![Bucket(_bit)] = @ \cup OneShl(Pos(_bit))]

Set(_bit) ==
    /\ m_bits' = setBits(m_bits, _bit)
    /\ UNCHANGED <<m_last, oob>>
    /\ Frame("set", _bit, 0, 0)

\* valBegin of setRange/unsetRange: bitBegin, then v |= v >> 1, 2, 4, 8, 16, 32.
smearRight(v) ==
    LET s1 == v \cup Shr(v, 1)
        s2 == s1 \cup Shr(s1, 2)
        s3 == s2 \cup Shr(s2, 4)
        s4 == s3 \cup Shr(s3, 8)
        s5 == s4 \cup Shr(s4, 16)
    IN  s5 \cup Shr(s5, 32)

\* valEnd of setRange/unsetRange: bitEnd, then v |= v << 1, 2, 4, 8, 16, 32.
smearLeft(v) ==
    LET s1 == v \cup Shl(v, 1)
        s2 == s1 \cup Shl(s1, 2)
        s3 == s2 \cup Shl(s2, 4)
        s4 == s3 \cup Shl(s3, 8)
        s5 == s4 \cup Shl(s4, 16)
    IN  s5 \cup Shl(s5, 32)

\* memset(bits()+first, fill, n*sizeof(uint64_t))
memsetWords(bits, first, n, fill) ==
    [s \in DOMAIN bits |-> IF first <= s /\ s < first + n THEN fill ELSE bits[s]]

\* The words after setRange(_begin, _end).
setRangeBits(bits, _begin, _end) ==
    LET bucketBegin == Bucket(_begin)
        bucketEnd == Bucket(_end)
        valBegin == smearRight(OneShl(Pos(_begin)))
        valEnd == smearLeft(OneShl(Pos(_end)))
        b1 == [bits EXCEPT ![bucketBegin] = @ \cup valBegin]
        b2 == [b1 EXCEPT ![bucketEnd] = @ \cup valEnd]
        numBucketsToSet == bucketEnd - bucketBegin
    IN  memsetWords(b2, bucketBegin, numBucketsToSet, UINT64_MAX)

\* void setRange(_begin, _end)
SetRange(_begin, _end) ==
    /\ m_bits' = setRangeBits(m_bits, _begin, _end)
    /\ m_last' = IF _begin <= m_last /\ m_last <= _end THEN _end ELSE m_last
    /\ UNCHANGED oob
    /\ Frame("setRange", _begin, _end, 0)

\* The words after unsetRange(_begin, _end).
unsetRangeBits(bits, _begin, _end) ==
    LET bucketBegin == Bucket(_begin)
        bucketEnd == Bucket(_end)
        valBegin == smearRight(OneShl(Pos(_begin)))
        valEnd == smearLeft(OneShl(Pos(_end)))
        b1 == [bits EXCEPT ![bucketBegin] = @ \cap Not(valBegin)]
        b2 == [b1 EXCEPT ![bucketEnd] = @ \cap Not(valEnd)]
        numBucketsToSet == bucketEnd - bucketBegin
    IN  memsetWords(b2, bucketBegin, numBucketsToSet, {})

\* void unsetRange(_begin, _end)
UnsetRange(_begin, _end) ==
    /\ m_bits' = unsetRangeBits(m_bits, _begin, _end)
    /\ m_last' = _begin
    /\ UNCHANGED oob
    /\ Frame("unsetRange", _begin, _end, 0)

\* void unset(_bit)
unsetBits(bits, _bit) ==
    [bits EXCEPT ![Bucket(_bit)] = @ \cap Not(OneShl(Pos(_bit)))]

Unset(_bit) ==
    /\ m_bits' = unsetBits(m_bits, _bit)
    /\ UNCHANGED <<m_last, oob>>
    /\ Frame("unset", _bit, 0, 0)

\* toggle with "bits()[bucket] |= bit" written for "^= bit".
toggleBits_Or(bits, _bit) ==
    [bits EXCEPT ![Bucket(_bit)] = @ \cup OneShl(Pos(_bit))]

\* void toggle(_bit)
toggleBits(bits, _bit) ==
    [bits EXCEPT ![Bucket(_bit)] = Xor(@, OneShl(Pos(_bit)))]

Toggle(_bit) ==
    /\ m_bits' = toggleBits(m_bits, _bit)
    /\ UNCHANGED <<m_last, oob>>
    /\ Frame("toggle", _bit, 0, 0)

\* setRightmostBit with "bits()[_slot] = rightmost" written for "|= rightmost".
setRightmostBit_Assign(bits, _slot) ==
    LET rightmost == Add1(bits[_slot])
        pos == cnttz_u64(rightmost)
        idx == SlotBase(_slot) + pos
        maxIdx == m_max
    IN  [bits |-> [bits EXCEPT ![_slot] = rightmost],
         ret |-> IF idx < maxIdx THEN idx ELSE maxIdx]

\* uint32_t setRightmostBit(_slot): the words after it, and what it returns.
setRightmostBit(bits, _slot) ==
    LET rightmost == Add1(bits[_slot])
        pos == cnttz_u64(rightmost)
        idx == SlotBase(_slot) + pos
        maxIdx == max
    IN  [bits |-> [bits EXCEPT ![_slot] = @ \cup rightmost],
         ret |-> IF idx < maxIdx THEN idx ELSE maxIdx]

\* The loop "for (slot = from; slot < end; ++slot)" of setFirst and setAny over
\* words of the buffer: the first slot with an unset bit, and m_last as the
\* skipped full words leave it (setFirst does not write m_last).
RECURSIVE scanUnset(_, _, _, _)
scanUnset(bits, slot, end, last) ==
    IF slot >= end THEN [found |-> FALSE, slot |-> slot, last |-> last]
    ELSE IF bits[slot] # UINT64_MAX
         THEN [found |-> TRUE, slot |-> slot, last |-> last]
         ELSE scanUnset(bits, slot + 1, end, slot + 1)

\* uint32_t setFirst()
setFirstResult(bits) ==
    LET sc == scanUnset(bits, 0, numSlots, 0)
    IN  IF sc.found THEN setRightmostBit(bits, sc.slot)
        ELSE [bits |-> bits, ret |-> max]

SetFirst ==
    LET r == setFirstResult(m_bits)
    IN  /\ m_bits' = r.bits
        /\ UNCHANGED <<m_last, oob>>
        /\ Frame("setFirst", 0, 0, r.ret)

Min(a, b) == IF a < b THEN a ELSE b

\* uint32_t setAny().  The second loop runs slot over 0 .. begin-1; when the
\* cursor is past numSlots() it goes on to bits()[slot] with slot >= numSlots(),
\* words that are not the array's.  What such a word holds is not determined:
\* either one of them reads as having an unset bit (setRightmostBit then writes
\* it and returns max(), its index being past max()), or all read as full.
SetAny ==
    LET begin == m_last
        count == numSlots
        l1 == scanUnset(m_bits, begin, numSlots, m_last)
        wrapped == IF l1.last >= count THEN 0 ELSE l1.last
        l2 == scanUnset(m_bits, 0, Min(begin, numSlots), wrapped)
    IN  IF l1.found
        THEN LET r == setRightmostBit(m_bits, l1.slot)
             IN  /\ m_bits' = r.bits
                 /\ m_last' = l1.last
                 /\ UNCHANGED oob
                 /\ Frame("setAny", 0, 0, r.ret)
        ELSE IF l2.found
        THEN LET r == setRightmostBit(m_bits, l2.slot)
             IN  /\ m_bits' = r.bits
                 /\ m_last' = l2.last
                 /\ UNCHANGED oob
                 /\ Frame("setAny", 0, 0, r.ret)
        ELSE IF begin <= numSlots
        THEN /\ m_bits' = m_bits
             /\ m_last' = l2.last
             /\ UNCHANGED oob
             /\ Frame("setAny", 0, 0, max)
        ELSE /\ m_bits' = m_bits
             /\ m_last' \in numSlots .. begin
             /\ oob' = TRUE
             /\ Frame("setAny", 0, 0, max)

\* The loop "for (ii = 0; ii < end; ++ii)" of the getFirst queries: the lowest
\* slot whose word differs from `skip`, or numSlots() when there is none.
RECURSIVE scanUp(_, _, _)
scanUp(bits, ii, skip) ==
    IF ii >= numSlots THEN numSlots
    ELSE IF bits[ii] # skip THEN ii
         ELSE scanUp(bits, ii + 1, skip)

\* The loop "for (ii = numSlots(); ii--; )" of the getLast queries: the highest
\* slot below ii whose word is not zero, or -1 when there is none.
RECURSIVE scanDown(_, _)
scanDown(bits, ii) ==
    IF ii = 0 THEN -1
    ELSE IF bits[ii - 1] # {} THEN ii - 1
         ELSE scanDown(bits, ii - 1)

\* static uint64_t markFirstUnsetBit(_v)
markFirstUnsetBit(_v) == Not(_v) \cap Add1(_v)

\* getFirstSetBit with "return pos" written for "return (ii<<6)+pos".
getFirstSetBit_NoSlotBase(bits) ==
    LET ii == scanUp(bits, 0, {})
    IN  IF ii < numSlots THEN cnttz_u64(bits[ii]) ELSE max

\* uint32_t getFirstSetBit()
getFirstSetBit(bits) ==
    LET ii == scanUp(bits, 0, {})
    IN  IF ii < numSlots THEN SlotBase(ii) + cnttz_u64(bits[ii]) ELSE max

\* uint32_t getFirstUnsetBit()
getFirstUnsetBit(bits) ==
    LET ii == scanUp(bits, 0, UINT64_MAX)
    IN  IF ii < numSlots
        THEN SlotBase(ii) + cnttz_u64(markFirstUnsetBit(bits[ii]))
        ELSE max

\* getLastSetBit as its comment has it: "Returns max() if none set".
getLastSetBit_MaxIfNone(bits) ==
    LET ii == scanDown(bits, numSlots)
    IN  IF ii < 0 THEN max
        ELSE IF bits[ii] = UINT64_MAX THEN SlotBase(ii + 1)
        ELSE LET sel == markFirstUnsetBit(bits[ii])
                 leading == cntlz_u64(sel)
             IN  SlotBase(ii) + ((WordBits - 1) - leading)

\* uint32_t getLastSetBit()
getLastSetBit(bits) ==
    LET ii == scanDown(bits, numSlots)
    IN  IF ii < 0 THEN 0
        ELSE IF bits[ii] = UINT64_MAX THEN SlotBase(ii + 1)
        ELSE LET sel == markFirstUnsetBit(bits[ii])
                 leading == cntlz_u64(sel)
             IN  SlotBase(ii) + ((WordBits - 1) - leading)

\* uint32_t getLastUnsetBit()
getLastUnsetBit(bits) ==
    LET ii == scanDown(bits, numSlots)
    IN  IF ii < 0 THEN max
        ELSE SlotBase(ii) + ((WordBits - 1) - cntlz_u64(bits[ii]))

\* uint32_t doCount()
RECURSIVE sumBits(_, _)
sumBits(bits, ii) ==
    IF ii = 0 THEN 0
    ELSE cntbits_u64(bits[ii - 1]) + sumBits(bits, ii - 1)

doCount(bits) == sumBits(bits, numSlots)

\* A query: returns a value and writes nothing.
Query(name, r) ==
    /\ UNCHANGED <<m_bits, m_last, oob>>
    /\ Frame(name, 0, 0, r)

GetFirstSetBit == Query("getFirstSetBit", getFirstSetBit(m_bits))

GetFirstUnsetBit == Query("getFirstUnsetBit", getFirstUnsetBit(m_bits))

GetLastSetBit == Query("getLastSetBit", getLastSetBit(m_bits))

GetLastUnsetBit == Query("getLastUnsetBit", getLastUnsetBit(m_bits))

DoCount == Query("doCount", doCount(m_bits))

\* void reset()
Reset ==
    /\ m_last' = 0
    /\ m_bits' = memsetWords(m_bits, 0, numSlots, {})
    /\ UNCHANGED oob
    /\ Frame("reset", 0, 0, 0)

\* A call under Spec: one of at most MaxCalls.
Counted(A) == calls < MaxCalls /\ calls' = calls + 1 /\ A

\* A call under SpecFirst and SpecAny.
Free(A) == A /\ UNCHANGED calls

\* Every operation, with arguments in range, begin <= end.
Next ==
    \/ \E i \in Args : Counted(Set(i))
    \/ \E i \in Args : Counted(Unset(i))
    \/ \E i \in Args : Counted(Toggle(i))
    \/ \E b \in Args : \E e \in {x \in Args : b <= x} : Counted(SetRange(b, e))
    \/ \E b \in Args : \E e \in {x \in Args : b <= x} : Counted(UnsetRange(b, e))
    \/ Counted(SetFirst)
    \/ Counted(SetAny)
    \/ Counted(GetFirstSetBit)
    \/ Counted(GetFirstUnsetBit)
    \/ Counted(GetLastSetBit)
    \/ Counted(GetLastUnsetBit)
    \/ Counted(DoCount)
    \/ Counted(Reset)

Spec == Init /\ [][Next]_vars

\* setFirst among point operations and reset, any number of calls.
NextFirst ==
    \/ \E i \in FillArgs : Free(Set(i))
    \/ \E i \in FillArgs : Free(Unset(i))
    \/ \E i \in FillArgs : Free(Toggle(i))
    \/ Free(SetFirst)
    \/ Free(Reset)

SpecFirst == Init /\ [][NextFirst]_vars

\* Any interleaving of setAny, set and unset, any number of calls.
NextAny ==
    \/ \E i \in FillArgs : Free(Set(i))
    \/ \E i \in FillArgs : Free(Unset(i))
    \/ Free(SetAny)

SpecAny == Init /\ [][NextAny]_vars

\* ------------------------------------------------- storage size functions

\* The capacities numSlotsFor/sizeFor are asked about.
SizeArgs == HighHalves \X ((0 .. MaxLowHalf) \cup {Half - 1})

\* A caller asks a storage strategy what a capacity _max takes.
SizeFor(h) ==
    /\ q_max' = h
    /\ q_numSlots' = numSlotsForU32(h)
    /\ q_size' = sizeForU32(h)
    /\ UNCHANGED <<bitVars, setVars, lifeVars>>

NextSize == \E h \in SizeArgs : SizeFor(h)

InitSize == BitIdle /\ SizeIdle /\ SetIdle /\ LifeIdle

SpecSize == InitSize /\ [][NextSize]_vars

\* -------------------------------------------------------------- sparse set

\* Set::init without "m_num = 0": the count is whatever the memory held.
SetInit_NoNum(_max) ==
    /\ m_num \in 0 .. (_max + 1)
    /\ s_max = _max
    /\ m_values = [k \in 0 .. (_max - 1) |-> Uninit]
    /\ m_indices = [k \in 0 .. (_max - 1) |-> Uninit]

\* Set::init(_max, _reallocator) (SetT(): m_num = 0 over MaxValueT): the
\* count is zero, the two buffers hold what the allocation held.
SetInit(_max) ==
    /\ m_num = 0
    /\ s_max = _max
    /\ m_values = [k \in 0 .. (_max - 1) |-> Uninit]
    /\ m_indices = [k \in 0 .. (_max - 1) |-> Uninit]

\* count() returning the capacity, as max() does.
count_Max == s_max

\* uint16_t count() const
count == m_num

\* uint16_t max() const
setMax == s_max

\* The in-range arguments v < max().
Domain == 0 .. (setMax - 1)

\* What reading a cell yields: its value once written; before that any
\* uint16_t (setMax stands for every value outside the domain).
Read(c) == IF c = Uninit THEN 0 .. setMax ELSE {c}

\* contains(v): indices[v] < count && values[indices[v]] == v.  The values a
\* call can return (one, unless it reads a cell never written).
containsOutcomes(v) ==
    UNION { IF idx < count
            THEN {val = v : val \in Read(m_values[idx])}
            ELSE {FALSE}
            : idx \in Read(m_indices[v]) }

SetFrame(name, v) ==
    /\ s_call' = SCall(name, v)
    /\ UNCHANGED s_max
    /\ UNCHANGED <<bitVars, sizeVars, lifeVars>>

\* bool contains(v)
Contains(v) ==
    /\ s_ret' \in containsOutcomes(v)
    /\ UNCHANGED <<m_num, m_values, m_indices, s_fault, s_ref>>
    /\ SetFrame("contains", v)

\* insert(v): no-op if present; the capacity check trips if count == max();
\* otherwise indices[v] = count; values[count] = v; count += 1.
Insert(v) ==
    /\ \E present \in containsOutcomes(v) :
           IF present
           THEN UNCHANGED <<m_num, m_values, m_indices, s_fault>>
           ELSE IF count = setMax
           THEN /\ s_fault' = "capacity"
                /\ UNCHANGED <<m_num, m_values, m_indices>>
           ELSE /\ m_indices' = [m_indices EXCEPT ![v] = count]
                /\ m_values' = [m_values EXCEPT ![count] = v]
                /\ m_num' = count + 1
                /\ UNCHANGED s_fault
    /\ s_ref' = s_ref \cup {v}
    /\ UNCHANGED s_ret
    /\ SetFrame("insert", v)

\* remove(v), the two stores: values[i] = w; indices[w] = i.
removeCells(i, w) ==
    [values  |-> [m_values EXCEPT ![i] = w],
     indices |-> [m_indices EXCEPT ![w] = i]]

\* remove(v): no-op if absent; otherwise i = indices[v], last = count-1,
\* w = values[last]; values[i] = w; indices[w] = i; count -= 1.
Remove(v) ==
    /\ \E present \in containsOutcomes(v) :
           IF ~present
           THEN UNCHANGED <<m_num, m_values, m_indices, s_fault>>
           ELSE \E i \in Read(m_indices[v]) :
                \E w \in Read(m_values[count - 1]) :
                    IF i \in Domain /\ w \in Domain
                    THEN /\ m_values' = removeCells(i, w).values
                         /\ m_indices' = removeCells(i, w).indices
                         /\ m_num' = count - 1
                         /\ UNCHANGED s_fault
                    ELSE /\ s_fault' = "bounds"
                         /\ m_num' = count - 1
                         /\ UNCHANGED <<m_values, m_indices>>
    /\ s_ref' = s_ref \ {v}
    /\ UNCHANGED s_ret
    /\ SetFrame("remove", v)

\* clear(): count = 0.
Clear ==
    /\ m_num' = 0
    /\ s_ref' = {}
    /\ UNCHANGED <<m_values, m_indices, s_fault, s_ret>>
    /\ SetFrame("clear", 0)

NextSet ==
    \/ \E v \in Domain : Insert(v)
    \/ \E v \in Domain : Remove(v)
    \/ \E v \in Domain : Contains(v)
    \/ Clear

\* A set over a domain of N <= MaxDomain elements, just initialised.
InitSet ==
    /\ BitIdle
    /\ SizeIdle
    /\ LifeIdle
    /\ \E N \in 0 .. MaxDomain : SetInit(N)
    /\ s_fault = "none"
    /\ s_call = [name |-> "init", a |-> 0, num |-> 0]
    /\ s_ret = FALSE
    /\ s_ref = {}

SpecSet == InitSet /\ [][NextSet]_vars

\* -------------------------------------------------------- storage lifetime

\* The buffers after one more has been taken, and the new buffer's number.
taken(kind) == Append(l_bufs, [kind |-> kind, frees |-> 0])
fresh == Len(l_bufs) + 1

\* The buffers after buffer b has been passed to the free hook.
freed(b) == [l_bufs EXCEPT ![b].frees = @ + 1]

\* What reading m_cleanup yields: its value once written, either before.
ReadFlag(c) == IF c = "uninit" THEN BOOLEAN ELSE {c = "true"}

LifeFrame(family, event) ==
    /\ l_family = family
    /\ l_phase = "alive"
    /\ l_last' = event
    /\ l_prev' = l_last
    /\ UNCHANGED l_family
    /\ UNCHANGED <<bitVars, sizeVars, setVars>>

\* Set::destroy() that frees but leaves m_values pointing at the buffer.
setDestroy_KeepPtr ==
    { IF c /\ NULL # l_ptr
      THEN [ptr |-> l_ptr, bufs |-> freed(l_ptr)]
      ELSE [ptr |-> l_ptr, bufs |-> l_bufs]
      : c \in ReadFlag(l_cleanup) }

\* Set::destroy(): if (m_cleanup && NULL != m_values) { BX_FREE(m_values);
\* m_values = NULL; m_indices = NULL; }.  The outcomes a call can have.
setDestroy ==
    { IF c /\ NULL # l_ptr
      THEN [ptr |-> NULL, bufs |-> freed(l_ptr)]
      ELSE [ptr |-> l_ptr, bufs |-> l_bufs]
      : c \in ReadFlag(l_cleanup) }

\* Set::init(_max, _reallocator): m_values = BX_ALLOC(...); m_cleanup = true.
SetInitOwned ==
    /\ Len(l_bufs) < MaxInits
    /\ l_ptr' = fresh
    /\ l_bufs' = taken("owned")
    /\ l_cleanup' = "true"
    /\ UNCHANGED l_phase
    /\ LifeFrame("Set", "init")

\* Set::init(_max, _mem, _allocator): m_values = _mem; m_cleanup = false.
SetInitExternal ==
    /\ Len(l_bufs) < MaxInits
    /\ l_ptr' = fresh
    /\ l_bufs' = taken("external")
    /\ l_cleanup' = "false"
    /\ UNCHANGED l_phase
    /\ LifeFrame("Set", "initExternal")

\* void Set::destroy()
SetDestroy ==
    /\ \E d \in setDestroy : l_ptr' = d.ptr /\ l_bufs' = d.bufs
    /\ UNCHANGED <<l_cleanup, l_phase>>
    /\ LifeFrame("Set", "destroy")

\* Set::~Set(): destroy(), and the lifetime is over.
SetDtor ==
    /\ \E d \in setDestroy : l_ptr' = d.ptr /\ l_bufs' = d.bufs
    /\ l_phase' = "ended"
    /\ UNCHANGED l_cleanup
    /\ LifeFrame("Set", "dtor")

\* BitArray::init(_max, _reallocFn): BitArrayStorage::init takes
\* dm_alloc(sizeFor(_max), _reallocFn) into m_bits.
BitInit ==
    /\ Len(l_bufs) < MaxInits
    /\ l_ptr' = fresh
    /\ l_bufs' = taken("owned")
    /\ UNCHANGED <<l_cleanup, l_phase>>
    /\ LifeFrame("BitArray", "init")

\* BitArrayStorage::destroy(): if (NULL != m_bits) { dm_free(m_bits);
\* m_bits = NULL; }
BitDestroy ==
    /\ IF NULL # l_ptr
       THEN l_ptr' = NULL /\ l_bufs' = freed(l_ptr)
       ELSE UNCHANGED <<l_ptr, l_bufs>>
    /\ UNCHANGED <<l_cleanup, l_phase>>
    /\ LifeFrame("BitArray", "destroy")

\* dm::ng::BitArray going out of scope: neither BitArray, BitArrayImpl nor
\* BitArrayStorage declares a destructor, so nothing runs.
BitEndOfScope ==
    /\ l_phase' = "ended"
    /\ UNCHANGED <<l_ptr, l_bufs, l_cleanup>>
    /\ LifeFrame("BitArray", "dtor")

NextLife ==
    \/ SetInitOwned
    \/ SetInitExternal
    \/ SetDestroy
    \/ SetDtor
    \/ BitInit
    \/ BitDestroy
    \/ BitEndOfScope

\* A default-constructed object of either family.
InitLife ==
    /\ BitIdle
    /\ SizeIdle
    /\ SetIdle
    /\ l_family \in {"Set", "BitArray"}
    /\ Constructed

SpecLife == InitLife /\ [][NextLife]_vars

\* ------------------------------------------------------- reference notions

\* The domain [0, max()) of the array.
InDomain == 0 .. (max - 1)

\* The indices of the domain that isSet() reports set in a word buffer.
SetIn(bits) == {i \in InDomain : isSetIn(bits, i)}

UnsetIn(bits) == InDomain \ SetIn(bits)

Least(S) == CHOOSE x \in S : \A y \in S : x <= y

Greatest(S) == CHOOSE x \in S : \A y \in S : y <= x

\* Every word of the buffer is zero.
NoBitSet == \A s \in Slots : m_bits[s] = {}

\* ------------------------------------------------------------------ claims

\* C1: after setRange(begin, end) every bit of [begin, end] is set and every
\* bit of the domain outside it is as before the call; on an empty array of
\* capacity 128, setRange(60, 70) leaves exactly bits 60..70 set, doCount() 11.
C1_SetRange ==
    call.name = "setRange" =>
        /\ \A i \in call.a .. call.b : isSet(i)
        /\ \A i \in InDomain \ (call.a .. call.b) : isSet(i) = isSetIn(pre.bits, i)
        /\ (max = 128 /\ call.a = 60 /\ call.b = 70 /\ SetIn(pre.bits) = {}) =>
               /\ SetIn(m_bits) = 60 .. 70
               /\ doCount(m_bits) = 11

\* C2: after unsetRange(begin, end) every bit of [begin, end] is unset and
\* every bit of the domain outside it is as before the call.
C2_UnsetRange ==
    call.name = "unsetRange" =>
        /\ \A i \in call.a .. call.b : ~isSet(i)
        /\ \A i \in InDomain \ (call.a .. call.b) : isSet(i) = isSetIn(pre.bits, i)

\* C3: doCount() is the number of indices i of [0, max()) with isSet(i).
C3_DoCount == doCount(m_bits) = Cardinality(SetIn(m_bits))

\* What C4 has setFirst() return on a buffer: the least unset index of the
\* domain, max() when there is none.
LeastUnsetOrMax(bits) ==
    IF UnsetIn(bits) = {} THEN max ELSE Least(UnsetIn(bits))

\* C4: setFirst() returns the least unset index of the domain, sets that bit
\* and changes no other bit of the domain; on a full domain it returns max().
\* (Called on an array whose set bits are 0..k-1 it therefore returns k, and
\* max() once k = max().)
C4_SetFirst ==
    call.name = "setFirst" =>
        /\ ret = LeastUnsetOrMax(pre.bits)
        /\ SetIn(m_bits) = SetIn(pre.bits) \cup (IF ret < max THEN {ret} ELSE {})

\* C4 witness: the last two calls of the run setFirst() x (max()+1) on an
\* array whose last word is partial: every index was set, the call returned
\* max().
C4_Witness ==
    /\ call.name = "setFirst"
    /\ max % WordBits # 0
    /\ SetIn(pre.bits) = InDomain
    /\ ret = max

\* C5: setAny() returns max() only if every index of the domain was already
\* set; otherwise it returns an index below max() that was unset, sets it and
\* changes no other bit of the domain.
C5_SetAny ==
    call.name = "setAny" =>
        IF UnsetIn(pre.bits) = {}
        THEN ret = max /\ SetIn(m_bits) = SetIn(pre.bits)
        ELSE /\ ret \in UnsetIn(pre.bits)
             /\ SetIn(m_bits) = SetIn(pre.bits) \cup {ret}

C7_FullSentinels ==
    SetIn(m_bits) = InDomain =>
        /\ getFirstUnsetBit(m_bits) = max
        /\ getLastUnsetBit(m_bits) = max

\* C8: with at least one bit set, getLastSetBit() returns the greatest set
\* index, unless the highest non-zero word is all ones: then it returns the
\* index just past that word.
C8_LastSet ==
    SetIn(m_bits) # {} =>
        LET ii == scanDown(m_bits, numSlots)
        IN  IF m_bits[ii] = UINT64_MAX
            THEN getLastSetBit(m_bits) = (ii + 1) * WordBits
            ELSE getLastSetBit(m_bits) = Greatest(SetIn(m_bits))

\* C9: with at least one index of the domain unset, getLastUnsetBit() returns
\* the greatest unset index of the domain.
C9_LastUnset ==
    UnsetIn(m_bits) # {} =>
        getLastUnsetBit(m_bits) = Greatest(UnsetIn(m_bits))

\* C10: getFirstSetBit() returns the least set index when a bit is set,
\* getFirstUnsetBit() the least unset index of the domain when one is unset,
\* and neither call changes a bit or the cursor.
C10_FirstBits ==
    /\ SetIn(m_bits) # {} => getFirstSetBit(m_bits) = Least(SetIn(m_bits))
    /\ UnsetIn(m_bits) # {} => getFirstUnsetBit(m_bits) = Least(UnsetIn(m_bits))
    /\ call.name = "getFirstSetBit" =>
           /\ m_bits = pre.bits /\ m_last = pre.last
           /\ SetIn(m_bits) # {} => ret = Least(SetIn(m_bits))
    /\ call.name = "getFirstUnsetBit" =>
           /\ m_bits = pre.bits /\ m_last = pre.last
           /\ UnsetIn(m_bits) # {} => ret = Least(UnsetIn(m_bits))

\* C10 witness: getFirstSetBit() has returned an index of the second word
\* while the first word, all zero, holds the first unset bit.
C10_Witness ==
    /\ call.name = "getFirstSetBit"
    /\ ret >= WordBits /\ ret < max
    /\ UnsetIn(m_bits) # {}
    /\ SetIn(m_bits) # {}

\* C11: isSet(i) is true after set(i), false after unset(i) and back to its
\* value after two toggle(i) calls; set(i), unset(i) and toggle(i) change no
\* other bit of the domain and do not change the cursor.
C11_PointOps ==
    /\ call.name \in {"set", "unset", "toggle"} =>
           /\ SetIn(m_bits) \ {call.a} = SetIn(pre.bits) \ {call.a}
           /\ m_last = pre.last
    /\ call.name = "set" => isSet(call.a)
    /\ call.name = "unset" => ~isSet(call.a)
    /\ call.name = "toggle" => (isSet(call.a) = ~isSetIn(pre.bits, call.a))
    /\ \A i \in Args : toggleBits(toggleBits(m_bits, i), i) = m_bits

\* C11 witness: toggle(i) has cleared a set bit of an array whose cursor an
\* earlier range call had moved.
C11_Witness ==
    /\ call.name = "toggle"
    /\ isSetIn(pre.bits, call.a)
    /\ pre.last # 0

\* C15: no bit at a position >= max() of the last word is ever set.
C15_NoBitPastMax ==
    \A s \in Slots : \A p \in m_bits[s] : SlotBase(s) + p < max

\* C16: the cursor m_last stays within 0 .. numSlots().
C16_CursorInRange == 0 <= m_last /\ m_last <= numSlots

\* C18: setAny() reads and writes only words bits()[s] with s < numSlots().
C18_SetAnyInBounds == ~oob

\* ceil(M / 64) for M = high * 65536 + low.
CeilWords(h) == h[1] * (Half \div WordBits) + ((h[2] + WordBits - 1) \div WordBits)

\* C17: for every capacity M, numSlots (numSlotsFor) is ceil(M/64) and
\* sizeFor(M) is ceil(M/64) * 8.
C17_SlotsAndSize ==
    /\ q_numSlots = CeilWords(q_max)
    /\ q_size = CeilWords(q_max) * 8

\* C12: whatever the buffers held at construction, contains(v) after any
\* sequence of insert/remove/clear calls is membership of v in the reference
\* set built by the same calls.
C12_ContainsIsMembership ==
    /\ \A v \in Domain : containsOutcomes(v) = {v \in s_ref}
    /\ s_call.name = "contains" => s_ret = (s_call.a \in s_ref)

\* C12 witness: contains(v) has returned false for a removed v whose stale
\* index still points below count.
C12_Witness ==
    /\ s_call.name = "contains"
    /\ s_ret = FALSE
    /\ m_indices[s_call.a] # Uninit
    /\ m_indices[s_call.a] < count

\* The elements contains() reports present.
Present == {v \in Domain : containsOutcomes(v) = {TRUE}}

\* C13: count() is the number of v with contains(v); values[0..count) holds
\* exactly those elements, each once, and indices[values[k]] = k.
C13_DenseInvariant ==
    /\ count = Cardinality(Present)
    /\ \A k \in 0 .. (count - 1) :
           /\ m_values[k] \in Present
           /\ m_indices[m_values[k]] = k
    /\ {m_values[k] : k \in 0 .. (count - 1)} = Present
    /\ \A j, k \in 0 .. (count - 1) : j # k => m_values[j] # m_values[k]

\* C13 witness: remove(v) has moved the last element into the slot of v.
C13_Witness ==
    /\ s_call.name = "remove"
    /\ s_call.num = count + 1
    /\ count >= 1
    /\ s_call.a \notin Present
    /\ \E k \in 0 .. (count - 1) : m_values[k] > s_call.a /\ m_indices[s_call.a] = k

\* C20: count() <= max(), and insert's capacity check never trips for an
\* in-range argument.
C20_CountWithinMax == count <= setMax /\ s_fault # "capacity"

\* C20 witness: insert(v) has been called on a full set (count == max()).
C20_Witness ==
    /\ s_call.name = "insert"
    /\ s_call.num = setMax
    /\ setMax >= 2

\* An object whose lifetime is over and whose only init() was an owned one.
OwnedOnceEnded ==
    /\ l_phase = "ended"
    /\ Len(l_bufs) = 1
    /\ l_bufs[1].kind = "owned"

\* C14: for both families, the buffer a single owned init() obtained has been
\* released exactly once when the object's lifetime is over, with or without
\* an explicit destroy().
C14_OwnedReleasedOnce == OwnedOnceEnded => l_bufs[1].frees = 1

\* The part of C14 that is about dm::Set.
C14_SetReleasedOnce ==
    (l_family = "Set" /\ OwnedOnceEnded) => l_bufs[1].frees = 1

\* C19: on a dm::Set no buffer is passed to the free hook twice, and an
\* external buffer is never passed to it.
C19_NoDoubleFree ==
    l_family = "Set" =>
        \A b \in 1 .. Len(l_bufs) :
            /\ l_bufs[b].frees <= 1
            /\ l_bufs[b].kind = "external" => l_bufs[b].frees = 0

\* C19 witness: the destructor of a dm::Set has run right after an explicit
\* destroy() that freed an owned buffer, on an object that also had an
\* external buffer.
C19_Witness ==
    /\ l_family = "Set"
    /\ l_last = "dtor"
    /\ l_prev = "destroy"
    /\ \E b \in 1 .. Len(l_bufs) : l_bufs[b].kind = "owned" /\ l_bufs[b].frees = 1
    /\ \E b \in 1 .. Len(l_bufs) : l_bufs[b].kind = "external"

====
